---------------------------- MODULE Spec2Model ----------------------------
(***************************************************************************)
(* Verification model of the documentation spider: the concurrent frontier *)
(* crawler (crawlAll / crawlPage / fetchStatic / fetchWithPlaywright) and  *)
(* the size-bounded chunker (mergeSections / splitLargeSection).           *)
(*                                                                         *)
(* The crawler runs on one JavaScript event loop: a worker (one call of    *)
(* processNext) runs without interruption from one await to the next, so   *)
(* every action below is the code between two awaits of one worker.        *)
(***************************************************************************)
EXTENDS Integers, Sequences, FiniteSets, TLC

\* ------------------------------------------------------------------ bounds
MaxPaths == 3
MaxSeeds == 2
MaxSections == 3
MaxBlocks == 4
MaxPages == 2

\* ------------------------------------------------------- program constants
CONCURRENCY == 5
MAX_CHUNK_TOKENS == 1500
MIN_CHUNK_TOKENS == 100
THIN_PAGE_THRESHOLD == 200
MIN_USEFUL_TOKENS == 30

VARIABLES
  seeds,         \* crawlAll's argument `pages`
  site,          \* what the server and the renderer answer for each path
  unresponsive,  \* paths whose server accepts a request and never answers
  queue,         \* crawlAll.queue
  visited,       \* crawlAll.visited
  results,       \* crawlAll.results
  launched,      \* number of processNext() calls made by the launch loop
  main,          \* the position of crawlAll, then of the driver's main
  browser,       \* the shared Browser
  pagesOpen,     \* page contexts opened and not yet closed
  pc,            \* each worker's position (the await it is suspended at)
  item,          \* processNext.item
  direct,        \* crawlPage.result
  rendered,      \* crawlPage.pwResult / fetchWithPlaywright's pending return
  ret,           \* what crawlPage returned to processNext
  fetches,       \* history: calls of crawlPage per path
  pushes,        \* history: queue.push calls per path
  failed,        \* history: paths for which crawlPage returned null
  sections,      \* chunker: the input section list
  merged,        \* chunker: mergeSections(sections)
  splitIn,       \* chunker: the sections handed to splitLargeSection
  splitOut,      \* chunker: splitLargeSection of each of them
  phase,         \* chunker: which function has been applied
  pages,         \* chunkAll's argument `pages`
  pageNo,        \* chunkAll: the page that flatMap hands to chunkPage
  chunks,        \* chunkAll: what chunkPage returned for each page so far
  files,         \* driver: the chunk files in CHUNKS_DIR
  manifest       \* driver: the manifest written

crawlVars == <<seeds, site, unresponsive, queue, visited, results, launched,
               main, browser, pagesOpen, pc, item, direct, rendered, ret,
               fetches, pushes, failed>>
pageVars == <<pages, pageNo, chunks, files, manifest>>
chunkVars == <<sections, merged, splitIn, splitOut, phase, pageVars>>
vars == <<crawlVars, chunkVars>>

\* ------------------------------------------------------------------ values
Paths == 1..MaxPaths
Workers == 1..CONCURRENCY
SeedSections == <<"Getting Started", "Guides">>
Null == [null |-> TRUE]

\* ---------------------------------------------------------------- the site
AllPaths == [i \in 1..MaxPaths |-> i]

PageOf(tokens, links, rtokens, rlinks) ==
  [tokens |-> tokens, links |-> links, rtokens |-> rtokens, rlinks |-> rlinks]

\* full static pages linked in a chain: never rendered
SiteChain ==
  [p \in Paths |->
     LET l == IF p < MaxPaths THEN <<p + 1>> ELSE <<>>
     IN  PageOf(THIN_PAGE_THRESHOLD, l, THIN_PAGE_THRESHOLD, l)]

\* thin pages linked in a ring whose rendering yields the same text
SiteRing ==
  [p \in Paths |->
     LET l == <<(p % MaxPaths) + 1>>
     IN  PageOf(10, l, 10, l)]

\* client-side hydrated shells: text and links exist only once rendered
SiteHydrated ==
  [p \in Paths |-> PageOf(10, <<>>, 500, AllPaths)]

\* a full hub page linking everything; thin leaves whose rendering is worse
SiteHub ==
  [p \in Paths |->
     IF p = 1 THEN PageOf(THIN_PAGE_THRESHOLD + 300, AllPaths,
                          THIN_PAGE_THRESHOLD + 300, AllPaths)
              ELSE PageOf(10, <<1>>, 0, <<>>)]

Sites == {SiteChain, SiteRing, SiteHydrated, SiteHub}

RECURSIVE SeedLists(_)
SeedLists(n) ==
  IF n = 0 THEN {<<>>}
  ELSE SeedLists(n - 1) \cup
       {Append(s, [path |-> p, section |-> SeedSections[((n - 1) % 2) + 1]]) :
          s \in {t \in SeedLists(n - 1) : Len(t) = n - 1}, p \in Paths}

\* --------------------------------------------------------------- crawlPage
\* extractFromHtml: the Crawl Result built from one fetched markup
extractFromHtml(path, section, tokens, links, fetchMethod) ==
  [path |-> path, section |-> section, tokens |-> tokens,
   discoveredPaths |-> links, fetchMethod |-> fetchMethod]

IsThin(tokens) == tokens < THIN_PAGE_THRESHOLD

ChooseResultTie(result, pwResult) ==
  IF pwResult # Null /\ pwResult.tokens >= result.tokens
  THEN pwResult ELSE result

\* crawlPage's choice once fetchWithPlaywright has returned
ChooseResult(result, pwResult) ==
  IF pwResult # Null /\ pwResult.tokens > result.tokens
  THEN pwResult ELSE result

\* ---------------------------------------------------- processNext helpers
IsVisitedNever(vis, p) == FALSE

IsVisited(vis, p) == p \in vis

ShiftLast(q) == [item |-> q[Len(q)], rest |-> SubSeq(q, 1, Len(q) - 1)]

\* queue.shift()
Shift(q) == [item |-> Head(q), rest |-> Tail(q)]

MarkVisitedForgets(vis, p) == vis

\* visited.add(item.path)
MarkVisited(vis, p) == vis \cup {p}

\* the synchronous part of the while loop: shift until an unvisited item
RECURSIVE NextUnvisited(_, _)
NextUnvisited(q, vis) ==
  IF q = <<>> THEN [item |-> Null, queue |-> <<>>]
  ELSE LET s == Shift(q)
       IN  IF IsVisited(vis, s.item.path)
           THEN NextUnvisited(s.rest, vis)
           ELSE [item |-> s.item, queue |-> s.rest]

InQueue(q, p) == \E i \in DOMAIN q : q[i].path = p

ShouldEnqueueUnlessVisited(d, vis, q) == d \notin vis

ShouldEnqueueUnlessQueued(d, vis, q) == ~InQueue(q, d)

\* !visited.has(discovered) && !queue.some((q) => q.path === discovered)
ShouldEnqueue(d, vis, q) == d \notin vis /\ ~InQueue(q, d)

EnqueueDiscoveredFirstOnly(q, vis, ds) ==
  IF ds # <<>> /\ ShouldEnqueue(Head(ds), vis, q)
  THEN Append(q, [path |-> Head(ds), section |-> "Discovered"])
  ELSE q

\* for (const discovered of result.discoveredPaths) ... queue.push(...)
RECURSIVE EnqueueDiscovered(_, _, _)
EnqueueDiscovered(q, vis, ds) ==
  IF ds = <<>> THEN q
  ELSE EnqueueDiscovered(
         IF ShouldEnqueue(Head(ds), vis, q)
         THEN Append(q, [path |-> Head(ds), section |-> "Discovered"])
         ELSE q,
         vis, Tail(ds))

CountPath(q, p) == Cardinality({i \in DOMAIN q : q[i].path = p})

AfterFailureRetry(q, it) == Append(q, it)

\* a null result: nothing is pushed, the item is not put back
AfterFailure(q, it) == q

\* ------------------------------------------------------------------ text
\* A text is a non-empty sequence of lines (the text split at "\n"); a line
\* is known by its length in characters, and for a heading line by its level
\* and name.  The empty string is the text of one empty line.
TextLine(n) == [lvl |-> 0, name |-> "", len |-> n]

Blank == TextLine(0)

RECURSIVE SumLen(_)
SumLen(t) == IF t = <<>> THEN 0 ELSE Head(t).len + SumLen(Tail(t))

\* text.length: the lines and the "\n" between them
TextLen(t) == SumLen(t) + Len(t) - 1

\* Math.ceil(text.length / 4)
estimateTokens(t) == (TextLen(t) + 3) \div 4

\* a + "\n\n" + b
JoinBlank(a, b) == a \o <<Blank>> \o b

RECURSIVE JoinParagraphs(_)
\* paragraphs.join("\n\n")
JoinParagraphs(ps) ==
  IF Len(ps) = 1 THEN ps[1] ELSE JoinBlank(ps[1], JoinParagraphs(Tail(ps)))

\* maximal runs of adjacent non-empty lines among lines i..l
RECURSIVE LineRuns(_, _, _, _)
LineRuns(t, i, l, acc) ==
  IF i > l THEN acc
  ELSE IF t[i].len = 0 THEN LineRuns(t, i + 1, l, acc)
  ELSE IF acc # <<>> /\ t[i - 1].len > 0
       THEN LineRuns(t, i + 1, l,
                     [acc EXCEPT ![Len(acc)] = Append(@, t[i])])
       ELSE LineRuns(t, i + 1, l, Append(acc, <<t[i]>>))

\* content.split(/\n\n+/): two or more consecutive "\n" separate paragraphs;
\* a separator at either end leaves an empty piece there, a single "\n" at
\* either end stays in its paragraph
SplitParagraphs(t) ==
  LET n  == Len(t)
      NE == {i \in 1..n : t[i].len > 0}
  IN  IF NE = {} THEN (IF n >= 3 THEN <<<<Blank>>, <<Blank>>>> ELSE <<t>>)
      ELSE
        LET f    == CHOOSE i \in NE : \A j \in NE : i <= j
            l    == CHOOSE i \in NE : \A j \in NE : j <= i
            core == LineRuns(t, f, l, <<>>)
            c1   == IF f - 1 = 1
                    THEN [core EXCEPT ![1] = <<Blank>> \o @] ELSE core
            c2   == IF n - l = 1
                    THEN [c1 EXCEPT ![Len(c1)] = Append(@, Blank)] ELSE c1
        IN  (IF f - 1 >= 2 THEN <<<<Blank>>>> ELSE <<>>) \o c2 \o
            (IF n - l >= 2 THEN <<<<Blank>>>> ELSE <<>>)

\* ---------------------------------------------------------------- chunker
CanAbsorbAtMax(prevTokens, tokens) ==
  tokens < MIN_CHUNK_TOKENS /\ prevTokens + tokens <= MAX_CHUNK_TOKENS

CanAbsorbAnySize(prevTokens, tokens) ==
  prevTokens + tokens < MAX_CHUNK_TOKENS

\* the size test of mergeSections
CanAbsorb(prevTokens, tokens) ==
  tokens < MIN_CHUNK_TOKENS /\ prevTokens + tokens < MAX_CHUNK_TOKENS

RECURSIVE MergeLoop(_, _)
MergeLoop(secs, mrg) ==
  IF secs = <<>> THEN mrg
  ELSE
    LET section == Head(secs)
        tokens  == estimateTokens(section.content)
    IN  IF mrg # <<>> /\ CanAbsorb(estimateTokens(mrg[Len(mrg)].content), tokens)
        THEN MergeLoop(Tail(secs),
               [mrg EXCEPT ![Len(mrg)].content = JoinBlank(@, section.content)])
        ELSE MergeLoop(Tail(secs), Append(mrg, section))

mergeSections(secs) == MergeLoop(secs, <<>>)

PieceOf(section, paragraphs) ==
  [heading |-> section.heading, headingLevel |-> section.headingLevel,
   content |-> JoinParagraphs(paragraphs)]

\* the loop of splitLargeSection over the paragraphs, then the last piece
RECURSIVE PackParagraphs(_, _, _, _, _)
PackParagraphs(section, ps, cur, curTokens, out) ==
  IF ps = <<>>
  THEN IF cur # <<>> THEN Append(out, PieceOf(section, cur)) ELSE out
  ELSE
    LET para       == Head(ps)
        paraTokens == estimateTokens(para)
    IN  IF curTokens + paraTokens > MAX_CHUNK_TOKENS /\ cur # <<>>
        THEN PackParagraphs(section, Tail(ps), <<para>>, paraTokens,
                            Append(out, PieceOf(section, cur)))
        ELSE PackParagraphs(section, Tail(ps), Append(cur, para),
                            curTokens + paraTokens, out)

splitLargeSection(section) ==
  IF estimateTokens(section.content) <= MAX_CHUNK_TOKENS THEN <<section>>
  ELSE PackParagraphs(section, SplitParagraphs(section.content), <<>>, 0, <<>>)

\* ------------------------------------------------------ lines of markdown
\* a heading line "#...# name" of the given level; a name of " " stands for
\* a name of white space only
HeadingLine(lvl, name) == [lvl |-> lvl, name |-> name, len |-> lvl + 1 + Len(name)]

\* a line of n white-space characters
SpaceLine(n) == [lvl |-> 0, name |-> " ", len |-> n]

IsWhite(line) == line.lvl = 0 /\ (line.len = 0 \/ line.name = " ")

\* line.match(/^(#{1,6})\s+(.+)$/)
IsHeading(line) == line.lvl \in 1..6

\* String.prototype.trim on a heading's name
TrimName(name) == IF name = " " THEN "" ELSE name

\* String.prototype.trim on a text: the white lines at both ends go, and so
\* does the white space that ends its last line (only a heading line whose
\* name is white space ends with some; the "#"s are left)
Trim(t) ==
  LET NW == {i \in DOMAIN t : ~IsWhite(t[i])}
  IN  IF NW = {} THEN <<Blank>>
      ELSE
        LET f == CHOOSE i \in NW : \A j \in NW : i <= j
            l == CHOOSE i \in NW : \A j \in NW : j <= i
            last == IF IsHeading(t[l]) /\ t[l].name = " "
                    THEN TextLine(t[l].lvl) ELSE t[l]
        IN  Append(SubSeq(t, f, l - 1), last)

\* --------------------------------------------------------- splitByHeadings
SectionOfBody(heading, level, lines) ==
  [heading |-> heading, headingLevel |-> level,
   content |-> IF Len(lines) > 1 THEN Trim(Tail(lines)) ELSE <<Blank>>]

\* sections.push({heading, headingLevel, content: currentLines.join("\n").trim()})
SectionOf(heading, level, lines) ==
  [heading |-> heading, headingLevel |-> level, content |-> Trim(lines)]

\* the loop of splitByHeadings over the lines, then the last section
RECURSIVE SplitLoop(_, _, _, _, _)
SplitLoop(lines, currentHeading, currentLevel, currentLines, secs) ==
  LET saved == IF currentLines # <<>>
               THEN Append(secs, SectionOf(currentHeading, currentLevel,
                                           currentLines))
               ELSE secs
  IN  IF lines = <<>> THEN saved
      ELSE IF IsHeading(Head(lines))
      THEN SplitLoop(Tail(lines), TrimName(Head(lines).name),
                     Head(lines).lvl, <<Head(lines)>>, saved)
      ELSE SplitLoop(Tail(lines), currentHeading, currentLevel,
                     Append(currentLines, Head(lines)), secs)

splitByHeadings(markdown) == SplitLoop(markdown, "", 0, <<>>, <<>>)

\* ---------------------------------------------------- buildHeadingHierarchy
RECURSIVE PopDeeperOnly(_, _)
PopDeeperOnly(stack, level) ==
  IF stack # <<>> /\ stack[Len(stack)].level > level
  THEN PopDeeperOnly(SubSeq(stack, 1, Len(stack) - 1), level)
  ELSE stack

\* while (stack.length > 0 && top.level >= section.headingLevel) stack.pop()
RECURSIVE PopStack(_, _)
PopStack(stack, level) ==
  IF stack # <<>> /\ stack[Len(stack)].level >= level
  THEN PopStack(SubSeq(stack, 1, Len(stack) - 1), level)
  ELSE stack

StackAfterNoPop(stack, section) ==
  IF section.heading # ""
  THEN Append(stack, [heading |-> section.heading,
                      level |-> section.headingLevel])
  ELSE stack

\* the stack after the pops and the push made for one section
StackAfter(stack, section) ==
  LET popped == PopStack(stack, section.headingLevel)
  IN  IF section.heading # ""
      THEN Append(popped, [heading |-> section.heading,
                           level |-> section.headingLevel])
      ELSE popped

Trail(pageTitle, stack) ==
  <<pageTitle>> \o [k \in DOMAIN stack |-> stack[k].heading]

RECURSIVE HierarchyLoop(_, _, _, _)
HierarchyLoop(secs, pageTitle, stack, hierarchies) ==
  IF secs = <<>> THEN hierarchies
  ELSE LET s == StackAfter(stack, Head(secs))
       IN  HierarchyLoop(Tail(secs), pageTitle, s,
                         Append(hierarchies, Trail(pageTitle, s)))

buildHeadingHierarchy(secs, pageTitle) ==
  HierarchyLoop(secs, pageTitle, <<>>, <<>>)

\* ----------------------------------------------------------------- slugify
UpperCase == <<"A", "B", "C", "D", "E", "F", "G", "H", "I", "J", "K", "L", "M",
               "N", "O", "P", "Q", "R", "S", "T", "U", "V", "W", "X", "Y", "Z">>
LowerCase == <<"a", "b", "c", "d", "e", "f", "g", "h", "i", "j", "k", "l", "m",
               "n", "o", "p", "q", "r", "s", "t", "u", "v", "w", "x", "y", "z">>
Digits == <<"0", "1", "2", "3", "4", "5", "6", "7", "8", "9">>

\* the characters of the strings that name pages
Chars(text) ==
  CASE text = ""        -> <<>>
    [] text = "T"       -> <<"T">>
    [] text = "t"       -> <<"t">>
    [] text = "T!"      -> <<"T", "!">>
    [] text = "API v3"  -> <<"A", "P", "I", " ", "v", "3">>
    [] text = "api-v3"  -> <<"a", "p", "i", "-", "v", "3">>
    [] text = "unknown" -> <<"u", "n", "k", "n", "o", "w", "n">>

toLowerCase(c) ==
  IF \E k \in DOMAIN UpperCase : UpperCase[k] = c
  THEN LowerCase[CHOOSE k \in DOMAIN UpperCase : UpperCase[k] = c]
  ELSE c

\* [a-z0-9]
IsSlugChar(c) ==
  \/ \E k \in DOMAIN LowerCase : LowerCase[k] = c
  \/ \E k \in DOMAIN Digits : Digits[k] = c

\* .replace(/[^a-z0-9]+/g, "-"): each run of other characters becomes one "-"
RECURSIVE ReplaceRuns(_, _)
ReplaceRuns(cs, out) ==
  IF cs = <<>> THEN out
  ELSE IF IsSlugChar(Head(cs)) THEN ReplaceRuns(Tail(cs), Append(out, Head(cs)))
  ELSE IF out # <<>> /\ out[Len(out)] = "-" THEN ReplaceRuns(Tail(cs), out)
  ELSE ReplaceRuns(Tail(cs), Append(out, "-"))

\* .replace(/^-|-$/g, "")
StripDashes(cs) ==
  LET a == IF cs # <<>> /\ Head(cs) = "-" THEN Tail(cs) ELSE cs
  IN  IF a # <<>> /\ a[Len(a)] = "-" THEN SubSeq(a, 1, Len(a) - 1) ELSE a

slugify(text) ==
  StripDashes(ReplaceRuns([k \in DOMAIN Chars(text) |->
                             toLowerCase(Chars(text)[k])], <<>>))

\* --------------------------------------------------------------- chunkPage
\* path.split("/").pop(): a path is the sequence of its "/"-separated parts
LastSegment(path) == path[Len(path)]

\* page.title || page.path.split("/").pop() || "unknown"
SlugSource(page) ==
  IF page.title # "" THEN page.title
  ELSE IF LastSegment(page.path) # "" THEN LastSegment(page.path)
  ELSE "unknown"

RECURSIVE DigitsOf(_)
DigitsOf(i) ==
  IF i < 10 THEN <<Digits[i + 1]>>
  ELSE Append(DigitsOf(i \div 10), Digits[(i % 10) + 1])

\* String(i).padStart(2, "0")
PadStart2(i) == IF i < 10 THEN <<"0">> \o DigitsOf(i) ELSE DigitsOf(i)

OrdinalFromOne(k) == k

\* the index that Array.prototype.map hands out for the k-th element
Ordinal(k) == k - 1

ChunkId(slug, i) == slug \o <<"-">> \o PadStart2(i)

\* !page.markdown.trim()
IsEmptyMarkdown(markdown) == Trim(markdown) = <<Blank>>

RECURSIVE Flatten(_)
Flatten(ss) == IF ss = <<>> THEN <<>> ELSE Head(ss) \o Flatten(Tail(ss))

\* the chunks chunkPage makes of its final sections (url and crawledAt, which
\* it copies from the page, are left out)
DocChunks(page, secs) ==
  LET slug        == slugify(SlugSource(page))
      hierarchies == buildHeadingHierarchy(secs, page.title)
      totalChunks == Len(secs)
  IN  [k \in DOMAIN secs |->
         [id             |-> ChunkId(slug, Ordinal(k)),
          path           |-> page.path,
          section        |-> page.section,
          title          |-> page.title,
          heading        |-> IF secs[k].heading # "" THEN secs[k].heading
                             ELSE page.title,
          headingLevel   |-> secs[k].headingLevel,
          parentHeadings |-> hierarchies[k],
          content        |-> secs[k].content,
          tokenEstimate  |-> estimateTokens(secs[k].content),
          chunkIndex     |-> Ordinal(k),
          totalChunks    |-> totalChunks]]

\* ------------------------------------------------------- chunker's inputs
HeadingNames == <<"A", "B", "C", "D", "E", "F">>

P(n) == <<TextLine(n)>>

Contents ==
  { <<Blank>>, P(4), P(396), P(400), P(5600), P(5604), P(6004),
    <<TextLine(3000), Blank, TextLine(3000)>>,
    <<TextLine(3000), Blank, TextLine(3004)>>,
    <<TextLine(2000), Blank, Blank, TextLine(2000), Blank, TextLine(2004)>>,
    <<TextLine(6004), Blank, TextLine(4)>>,
    <<TextLine(3000), TextLine(3004)>> }

RECURSIVE SectionLists(_)
SectionLists(n) ==
  IF n = 0 THEN {<<>>}
  ELSE SectionLists(n - 1) \cup
       {Append(s, [heading |-> HeadingNames[n],
                   headingLevel |-> ((n - 1) % 3) + 1,
                   content |-> c]) :
          s \in {t \in SectionLists(n - 1) : Len(t) = n - 1}, c \in Contents}

\* ------------------------------------------------------------------- Init
CrawlInit ==
  /\ seeds \in SeedLists(MaxSeeds)
  /\ site \in Sites
  /\ queue = seeds
  /\ visited = {}
  /\ results = <<>>
  /\ launched = 0
  /\ main = "launching"
  /\ browser = "open"
  /\ pagesOpen = 0
  /\ pc = [w \in Workers |-> "init"]
  /\ item = [w \in Workers |-> Null]
  /\ direct = [w \in Workers |-> Null]
  /\ rendered = [w \in Workers |-> Null]
  /\ ret = [w \in Workers |-> Null]
  /\ fetches = [p \in Paths |-> 0]
  /\ pushes = [p \in Paths |-> 0]
  /\ failed = {}

ChunkIdle ==
  /\ sections = <<>>
  /\ merged = <<>>
  /\ splitIn = <<>>
  /\ splitOut = <<>>
  /\ phase = "idle"
  /\ pages = <<>>
  /\ pageNo = 0
  /\ chunks = <<>>
  /\ files = {}
  /\ manifest = Null

Init == CrawlInit /\ unresponsive = {} /\ ChunkIdle

\* ---------------------------------------------------------------- actions
\* the loop head of processNext, run by worker w on queue q
ClaimNext(w, q) ==
  LET n == NextUnvisited(q, visited)
  IN  /\ queue' = n.queue
      /\ IF n.item = Null
         THEN /\ pc' = [pc EXCEPT ![w] = "done"]
              /\ item' = [item EXCEPT ![w] = Null]
              /\ visited' = visited
         ELSE /\ pc' = [pc EXCEPT ![w] = "delay"]
              /\ item' = [item EXCEPT ![w] = n.item]
              /\ visited' = MarkVisited(visited, n.item.path)

\* workers.push(processNext()): the call runs up to its first await
Launch(w) ==
  /\ main = "launching"
  /\ launched = w - 1
  /\ pc[w] = "init"
  /\ launched' = w
  /\ main' = IF w = CONCURRENCY THEN "awaiting" ELSE main
  /\ ClaimNext(w, queue)
  /\ UNCHANGED <<seeds, site, unresponsive, results, browser, pagesOpen,
                 direct, rendered, ret, fetches, pushes, failed, chunkVars>>

\* the inter-request delay elapses: crawlPage -> fetchStatic -> fetch(url)
DelayElapsed(w) ==
  /\ main = "awaiting"
  /\ pc[w] = "delay"
  /\ pc' = [pc EXCEPT ![w] = "fetch"]
  /\ fetches' = [fetches EXCEPT ![item[w].path] = @ + 1]
  /\ UNCHANGED <<seeds, site, unresponsive, queue, visited, results, launched,
                 main, browser, pagesOpen, item, direct, rendered, ret,
                 pushes, failed, chunkVars>>

\* crawlPage returns r to processNext
Return(w, r) ==
  /\ pc' = [pc EXCEPT ![w] = "resume"]
  /\ ret' = [ret EXCEPT ![w] = r]
  /\ failed' = IF r = Null THEN failed \cup {item[w].path} ELSE failed

\* await fetch(url) settles
FetchSettles(w) ==
  /\ main = "awaiting"
  /\ pc[w] = "fetch"
  /\ item[w].path \notin unresponsive
  /\ \/ /\ pc' = [pc EXCEPT ![w] = "text"]          \* res.ok
        /\ UNCHANGED <<ret, failed>>
     \/ Return(w, Null)                             \* !res.ok: return null
     \/ Return(w, Null)                             \* fetch rejects: catch
  /\ UNCHANGED <<seeds, site, unresponsive, queue, visited, results, launched,
                 main, browser, pagesOpen, item, direct, rendered, fetches,
                 pushes, chunkVars>>

\* await res.text() settles; extractFromHtml; the thinness test
BodyRead(w) ==
  /\ main = "awaiting"
  /\ pc[w] = "text"
  /\ item[w].path \notin unresponsive
  /\ LET pg == site[item[w].path]
         r  == extractFromHtml(item[w].path, item[w].section, pg.tokens,
                               pg.links, "static")
     IN  \/ /\ ~IsThin(r.tokens)                    \* return result
            /\ direct' = [direct EXCEPT ![w] = r]
            /\ Return(w, r)
         \/ /\ IsThin(r.tokens)                     \* browser.newPage()
            /\ direct' = [direct EXCEPT ![w] = r]
            /\ pc' = [pc EXCEPT ![w] = "newPage"]
            /\ UNCHANGED <<ret, failed>>
         \/ /\ direct' = direct                     \* res.text() rejects
            /\ Return(w, Null)
  /\ UNCHANGED <<seeds, site, unresponsive, queue, visited, results, launched,
                 main, browser, pagesOpen, item, rendered, fetches, pushes,
                 chunkVars>>

\* await browser.newPage() settles (outside fetchWithPlaywright's try)
NewPage(w) ==
  /\ main = "awaiting"
  /\ pc[w] = "newPage"
  /\ \/ /\ pagesOpen' = pagesOpen + 1
        /\ pc' = [pc EXCEPT ![w] = "goto"]
        /\ UNCHANGED <<ret, failed>>
     \/ /\ pagesOpen' = pagesOpen                   \* rejects: crawlPage's catch
        /\ Return(w, Null)
  /\ UNCHANGED <<seeds, site, unresponsive, queue, visited, results, launched,
                 main, browser, item, direct, rendered, fetches, pushes,
                 chunkVars>>

\* await page.goto(url, {timeout: 30_000}) settles
Goto(w) ==
  /\ main = "awaiting"
  /\ pc[w] = "goto"
  /\ \/ pc' = [pc EXCEPT ![w] = "settle"]
     \/ pc' = [pc EXCEPT ![w] = "close"]            \* timeout or error: catch
  /\ UNCHANGED <<seeds, site, unresponsive, queue, visited, results, launched,
                 main, browser, pagesOpen, item, direct, rendered, ret,
                 fetches, pushes, failed, chunkVars>>

\* await page.waitForTimeout(2000) settles
Settle(w) ==
  /\ main = "awaiting"
  /\ pc[w] = "settle"
  /\ \/ pc' = [pc EXCEPT ![w] = "content"]
     \/ pc' = [pc EXCEPT ![w] = "close"]            \* page crashed: catch
  /\ UNCHANGED <<seeds, site, unresponsive, queue, visited, results, launched,
                 main, browser, pagesOpen, item, direct, rendered, ret,
                 fetches, pushes, failed, chunkVars>>

\* await page.content() settles; extractFromHtml; then the finally block
Content(w) ==
  /\ main = "awaiting"
  /\ pc[w] = "content"
  /\ pc' = [pc EXCEPT ![w] = "close"]
  /\ LET pg == site[item[w].path]
     IN  \/ rendered' = [rendered EXCEPT ![w] =
                  extractFromHtml(item[w].path, item[w].section, pg.rtokens,
                                  pg.rlinks, "playwright")]
         \/ rendered' = rendered                    \* rejects: return null
  /\ UNCHANGED <<seeds, site, unresponsive, queue, visited, results, launched,
                 main, browser, pagesOpen, item, direct, ret, fetches, pushes,
                 failed, chunkVars>>

\* await page.close() settles (in finally); back in crawlPage
ClosePage(w) ==
  /\ main = "awaiting"
  /\ pc[w] = "close"
  /\ \/ /\ pagesOpen' = pagesOpen - 1
        /\ rendered' = rendered
        /\ Return(w, ChooseResult(direct[w], rendered[w]))
     \/ /\ pagesOpen' = pagesOpen                   \* rejects: the pending
        /\ rendered' = [rendered EXCEPT ![w] = Null] \* return is lost
        /\ Return(w, Null)
  /\ UNCHANGED <<seeds, site, unresponsive, queue, visited, results, launched,
                 main, browser, item, direct, fetches, pushes, chunkVars>>

\* processNext resumes with crawlPage's result and runs to its next await
Resume(w) ==
  /\ main = "awaiting"
  /\ pc[w] = "resume"
  /\ LET r == ret[w]
         q == IF r = Null
              THEN AfterFailure(queue, item[w])
              ELSE EnqueueDiscovered(queue, visited, r.discoveredPaths)
     IN  /\ results' = IF r = Null THEN results ELSE Append(results, r)
         /\ pushes' = [p \in DOMAIN pushes |->
                         pushes[p] + CountPath(q, p) - CountPath(queue, p)]
         /\ ClaimNext(w, q)
  /\ direct' = [direct EXCEPT ![w] = Null]
  /\ rendered' = [rendered EXCEPT ![w] = Null]
  /\ ret' = [ret EXCEPT ![w] = Null]
  /\ UNCHANGED <<seeds, site, unresponsive, launched, main, browser,
                 pagesOpen, fetches, failed, chunkVars>>

AllSettledRace ==
  /\ main = "awaiting"
  /\ \E w \in Workers : pc[w] = "done"
  /\ main' = "closing"
  /\ UNCHANGED <<seeds, site, unresponsive, queue, visited, results, launched,
                 browser, pagesOpen, pc, item, direct, rendered, ret, fetches,
                 pushes, failed, chunkVars>>

\* await Promise.all(workers) settles: browser.close()
AllSettled ==
  /\ main = "awaiting"
  /\ \A w \in Workers : pc[w] = "done"
  /\ main' = "closing"
  /\ UNCHANGED <<seeds, site, unresponsive, queue, visited, results, launched,
                 browser, pagesOpen, pc, item, direct, rendered, ret, fetches,
                 pushes, failed, chunkVars>>

\* await browser.close() settles: return results
BrowserClosed ==
  /\ main = "closing"
  /\ browser' = "closed"
  /\ main' = "returned"
  /\ UNCHANGED <<seeds, site, unresponsive, queue, visited, results, launched,
                 pagesOpen, pc, item, direct, rendered, ret, fetches, pushes,
                 failed, chunkVars>>

NoPagesNever(crawled) == FALSE

\* pages.length === 0
NoPages(crawled) == Len(crawled) = 0

\* main: crawlAll returned no page: console.error, process.exit(1)
DriverAbort ==
  /\ main = "returned"
  /\ NoPages(results)
  /\ main' = "exit1"
  /\ UNCHANGED <<seeds, site, unresponsive, queue, visited, results, launched,
                 browser, pagesOpen, pc, item, direct, rendered, ret, fetches,
                 pushes, failed, chunkVars>>

\* main: chunkAll, the filter, the chunk files and the manifest, all without
\* an await (what is written is the subject of PageSpec)
DriverWrite ==
  /\ main = "returned"
  /\ ~NoPages(results)
  /\ main' = "written"
  /\ UNCHANGED <<seeds, site, unresponsive, queue, visited, results, launched,
                 browser, pagesOpen, pc, item, direct, rendered, ret, fetches,
                 pushes, failed, chunkVars>>

WorkerStep(w) ==
  \/ Launch(w)
  \/ DelayElapsed(w)
  \/ FetchSettles(w)
  \/ BodyRead(w)
  \/ NewPage(w)
  \/ Goto(w)
  \/ Settle(w)
  \/ Content(w)
  \/ ClosePage(w)
  \/ Resume(w)

Next ==
  \/ \E w \in Workers : WorkerStep(w)
  \/ AllSettled
  \/ BrowserClosed
  \/ DriverAbort
  \/ DriverWrite

Spec == Init /\ [][Next]_vars


\* every request settles, and the event loop runs every ready continuation
LiveSpec == Init /\ [][Next]_vars /\ WF_vars(Next)

\* as LiveSpec, over sites where some servers never answer a request
InitStall == CrawlInit /\ unresponsive \in SUBSET Paths /\ ChunkIdle

StallSpec == InitStall /\ [][Next]_vars /\ WF_vars(Next)

\* ------------------------------------------------- a long seed catalog
\* more seeds than workers: seed tasks are still queued when the first
\* pages have been fetched
CatalogPaths == 1..(CONCURRENCY + 3)

\* a seed per path but the last, and the last seed path listed twice
SeedCatalog ==
  [i \in 1..(CONCURRENCY + 3) |->
     [path    |-> IF i <= CONCURRENCY + 2 THEN i ELSE CONCURRENCY + 2,
      section |-> SeedSections[((i - 1) % 2) + 1]]]

\* full static pages, each linking to a seed that is queued late, to a path
\* that is no seed, and to the first seed
SiteCatalog ==
  [p \in CatalogPaths |->
     LET l == <<CONCURRENCY + 2, CONCURRENCY + 3, 1>>
     IN  PageOf(THIN_PAGE_THRESHOLD, l, THIN_PAGE_THRESHOLD, l)]

\* the servers of all but at most one of the seeds 2..CONCURRENCY never
\* answer (fetch has no timeout), which holds their workers
CatalogInit ==
  /\ seeds = SeedCatalog
  /\ site = SiteCatalog
  /\ unresponsive \in {U \in SUBSET (2..CONCURRENCY) :
                         Cardinality(U) >= CONCURRENCY - 2}
  /\ queue = seeds
  /\ visited = {}
  /\ results = <<>>
  /\ launched = 0
  /\ main = "launching"
  /\ browser = "open"
  /\ pagesOpen = 0
  /\ pc = [w \in Workers |-> "init"]
  /\ item = [w \in Workers |-> Null]
  /\ direct = [w \in Workers |-> Null]
  /\ rendered = [w \in Workers |-> Null]
  /\ ret = [w \in Workers |-> Null]
  /\ fetches = [p \in CatalogPaths |-> 0]
  /\ pushes = [p \in CatalogPaths |-> 0]
  /\ failed = {}
  /\ ChunkIdle

\* the crawler on the short seed lists and on the long catalog
CatalogSpec == (Init \/ CatalogInit) /\ [][Next]_vars

\* ------------------------------------------------- definitions for claims
Range(s) == {s[i] : i \in DOMAIN s}

SeedPaths == {seeds[i].path : i \in DOMAIN seeds}

EverEnqueued == SeedPaths \cup {p \in Paths : pushes[p] > 0}

ResultsFor(p) == {i \in DOMAIN results : results[i].path = p}

AllDone == \A w \in Workers : pc[w] = "done"

RenderPcs == {"newPage", "goto", "settle", "content", "close"}

FetchPcs == {"fetch", "text"} \cup RenderPcs

RECURSIVE Closure(_, _)
Closure(S, links) ==
  LET T == S \cup UNION {links[p] : p \in S}
  IN  IF T = S THEN S ELSE Closure(T, links)

\* the Crawl Result of path p when neither its fetch nor its rendering fails
SitePage(p) ==
  LET pg == site[p]
      d  == extractFromHtml(p, "", pg.tokens, pg.links, "static")
      r  == extractFromHtml(p, "", pg.rtokens, pg.rlinks, "playwright")
  IN  IF IsThin(d.tokens) THEN ChooseResult(d, r) ELSE d

SiteGraph == [p \in Paths |-> Range(SitePage(p).discoveredPaths)]

\* the links of the Crawl Results obtained so far
ResultGraph ==
  [p \in Paths |-> UNION {Range(results[i].discoveredPaths) : i \in ResultsFor(p)}]

IsSuffix(s, t) ==
  Len(s) <= Len(t) /\ s = SubSeq(t, Len(t) - Len(s) + 1, Len(t))

\* ----------------------------------------------------------------- claims

\* C1: under every interleaving of the workers each path is handed to
\* crawlPage at most once, no two workers hold the same path, and the
\* results hold at most one Crawl Result per path.
C1_AtMostOncePerPath ==
  /\ \A p \in Paths : fetches[p] <= 1 /\ Cardinality(ResultsFor(p)) <= 1
  /\ \A v, w \in Workers :
       (v # w /\ item[v] # Null /\ item[w] # Null) => item[v].path # item[w].path

C1_Witness ==
  /\ main = "returned"
  /\ \E p \in Paths : CountPath(seeds, p) = 2 /\ fetches[p] = 1
  /\ Len(results) >= 2

\* C2 (as claimed): when crawlAll completes, the number of visited paths
\* equals the number of paths reachable from the seeds in the site's link
\* graph.
C2_VisitedEqualsReachable ==
  main = "returned" =>
    Cardinality(visited) = Cardinality(Closure(SeedPaths, SiteGraph))

\* C2 (amended): when crawlAll completes, visited is exactly the set of paths
\* reachable from the seeds through the discoveredPaths of the Crawl Results
\* obtained (a failed page contributes no links); it is the set reachable in
\* the site's link graph when every page was obtained as the site serves it;
\* no path is fetched twice.
C2_VisitedEqualsReachableViaResults ==
  main = "returned" =>
    /\ visited = Closure(SeedPaths, ResultGraph)
    /\ Cardinality(visited) = Cardinality(Closure(SeedPaths, ResultGraph))
    /\ (\A p \in visited :
          \E i \in ResultsFor(p) :
            results[i].discoveredPaths = SitePage(p).discoveredPaths)
         => visited = Closure(SeedPaths, SiteGraph)
    /\ \A p \in Paths : fetches[p] = IF p \in visited THEN 1 ELSE 0

C2_Witness ==
  /\ main = "returned"
  /\ failed # {}
  /\ Cardinality(visited) = MaxPaths
  /\ \E p \in Paths : pushes[p] > 0 /\ p \notin SeedPaths
  /\ \E i \in DOMAIN results : \E p \in SeedPaths :
       p \in Range(results[i].discoveredPaths)

\* C3: every worker exits and crawlAll returns; visited never shrinks; once
\* all workers have exited the queue is empty and every path ever enqueued
\* is in visited.
C3_Terminates ==
  /\ <>(main = "returned")
  /\ [][visited \subseteq visited']_vars
  /\ [](AllDone => (queue = <<>> /\ EverEnqueued \subseteq visited))

C3_Witness ==
  /\ main = "returned"
  /\ failed # {}
  /\ results # <<>>
  /\ \E p \in Paths : pushes[p] > 0

DupSeedPaths ==
  {p \in Paths : \E i, j \in DOMAIN seeds :
      i < j /\ seeds[i].path = p /\ seeds[j].path = p
            /\ seeds[i].section # seeds[j].section}

FirstSeedSection(p) ==
  seeds[CHOOSE i \in DOMAIN seeds :
          seeds[i].path = p /\ \A j \in 1..(i - 1) : seeds[j].path # p].section

\* C4 (as claimed): two seed tasks with the same path and different sections
\* produce exactly one Crawl Result, tagged with the first instance's section.
C4_ExactlyOneResult ==
  main = "returned" =>
    \A p \in DupSeedPaths :
      /\ Cardinality(ResultsFor(p)) = 1
      /\ \A i \in ResultsFor(p) : results[i].section = FirstSeedSection(p)

\* C4 (amended): two seed tasks with the same path and different sections
\* produce at most one Crawl Result for the path, exactly one when the fetch
\* of the first instance succeeds and none when it fails; the result carries
\* the section of the earlier instance, and the later one is discarded
\* without a fetch.
C4_FirstSeedSectionWins ==
  \A p \in DupSeedPaths :
    /\ Cardinality(ResultsFor(p)) <= 1
    /\ fetches[p] <= 1
    /\ \A i \in ResultsFor(p) : results[i].section = FirstSeedSection(p)
    /\ main = "returned" =>
         /\ fetches[p] = 1
         /\ (Cardinality(ResultsFor(p)) = 1) <=> (p \notin failed)

C4_Witness ==
  /\ main = "returned"
  /\ \E p \in DupSeedPaths :
       /\ Cardinality(ResultsFor(p)) = 1
       /\ seeds[2].path = p
       /\ seeds[2].section = "Guides"
       /\ \A i \in ResultsFor(p) : results[i].section = "Getting Started"

C5_FailureInv ==
  \A p \in failed :
    p \in visited /\ fetches[p] = 1 /\ ResultsFor(p) = {}

C5_Step ==
  /\ \A p \in failed :
       /\ p \in failed' /\ p \in visited'
       /\ fetches'[p] = fetches[p]
       /\ pushes'[p] = pushes[p]
  /\ failed' # failed =>
       /\ results' = results /\ queue' = queue /\ visited' = visited
       /\ pushes' = pushes
       /\ \A w \in Workers :
            /\ item'[w] = item[w]
            /\ pc'[w] = pc[w] \/ (pc'[w] = "resume" /\ ret'[w] = Null)
  /\ \A w \in Workers :
       (pc[w] = "resume" /\ ret[w] = Null /\ pc'[w] # "resume") =>
         LET n == NextUnvisited(queue, visited)
         IN  /\ results' = results /\ pushes' = pushes
             /\ IsSuffix(queue', queue)
             /\ item'[w] = n.item
             /\ pc'[w] = IF n.item = Null THEN "done" ELSE "delay"
             /\ \A v \in Workers \ {w} : pc'[v] = pc[v] /\ item'[v] = item[v]

\* C5: a failed fetch yields no Crawl Result and is never retried: the path
\* stays visited and is neither fetched nor enqueued again; the failure
\* leaves results, queue and the other workers untouched, and the worker
\* goes on to the next task.
C5_FailedFetchDropped == []C5_FailureInv /\ [][C5_Step]_vars

C5_Witness ==
  /\ main = "returned"
  /\ \E p \in failed : \E i \in DOMAIN results :
       p \in Range(results[i].discoveredPaths) /\ results[i].path # p
  /\ Len(results) >= 2

\* C6: the renderer is invoked only after a thin direct result; when it
\* returns a rendered result crawlPage returns the larger of the two, the
\* direct one on a tie, tagged "playwright" exactly when it is the rendered
\* one; direct = 10 and rendered = 500 returns the rendered result.
C6_ThinnessPolicy ==
  \A w \in Workers :
    /\ (pc[w] \in RenderPcs \/ rendered[w] # Null) =>
         (direct[w] # Null /\ IsThin(direct[w].tokens))
    /\ (pc[w] = "resume" /\ direct[w] # Null /\ ~IsThin(direct[w].tokens)) =>
         (ret[w] = direct[w] /\ rendered[w] = Null)
    /\ (pc[w] = "resume" /\ rendered[w] # Null) =>
         /\ ret[w] = IF rendered[w].tokens > direct[w].tokens
                     THEN rendered[w] ELSE direct[w]
         /\ (direct[w].tokens = 10 /\ rendered[w].tokens = 500) =>
              (ret[w] = rendered[w] /\ ret[w].fetchMethod = "playwright")
    /\ (pc[w] = "resume" /\ ret[w] # Null) =>
         /\ ret[w].fetchMethod = "playwright" <=>
              (rendered[w] # Null /\ ret[w] = rendered[w])
         /\ ret[w].fetchMethod = "static" <=> ret[w] = direct[w]

C6_Witness ==
  \E w \in Workers :
    /\ pc[w] = "resume"
    /\ direct[w] # Null /\ direct[w].tokens = 10
    /\ rendered[w] # Null /\ rendered[w].tokens = 500
    /\ ret[w].fetchMethod = "playwright"

\* C7: when the direct fetch gave a thin result and the rendering attempt
\* failed at any step, crawlPage returns the direct result, never null.
C7_RenderFailureKeepsDirect ==
  \A w \in Workers :
    (pc[w] = "resume" /\ direct[w] # Null /\ IsThin(direct[w].tokens)
       /\ rendered[w] = Null) => ret[w] = direct[w]

\* C8: every fetch a worker starts eventually finishes, so a server that
\* never responds cannot keep crawlAll from completing.
C8_EveryFetchFinishes ==
  /\ \A w \in Workers : (pc[w] \in FetchPcs) ~> (pc[w] \notin FetchPcs)
  /\ <>(main = "returned")


\* ------------------------------------------------------ the chunker's runs
CrawlIdle ==
  /\ seeds = <<>>
  /\ site = SiteChain
  /\ unresponsive = {}
  /\ queue = <<>>
  /\ visited = {}
  /\ results = <<>>
  /\ launched = 0
  /\ main = "idle"
  /\ browser = "closed"
  /\ pagesOpen = 0
  /\ pc = [w \in Workers |-> "init"]
  /\ item = [w \in Workers |-> Null]
  /\ direct = [w \in Workers |-> Null]
  /\ rendered = [w \in Workers |-> Null]
  /\ ret = [w \in Workers |-> Null]
  /\ fetches = [p \in Paths |-> 0]
  /\ pushes = [p \in Paths |-> 0]
  /\ failed = {}

ChunkInit ==
  /\ CrawlIdle
  /\ sections \in SectionLists(MaxSections)
  /\ merged = <<>>
  /\ splitIn = <<>>
  /\ splitOut = <<>>
  /\ phase = "input"
  /\ pages = <<>>
  /\ pageNo = 0
  /\ chunks = <<>>
  /\ files = {}
  /\ manifest = Null

\* sections = mergeSections(sections)
MergeInput ==
  /\ phase = "input"
  /\ merged' = mergeSections(sections)
  /\ phase' = "merged"
  /\ UNCHANGED <<crawlVars, pageVars, sections, splitIn, splitOut>>

\* sections.flatMap(splitLargeSection), kept per section
SplitAll(secs) ==
  /\ splitIn' = secs
  /\ splitOut' = [i \in DOMAIN secs |-> splitLargeSection(secs[i])]
  /\ phase' = "split"

\* splitLargeSection applied to the merged sections, as chunkPage does
SplitMerged ==
  /\ phase = "merged"
  /\ SplitAll(merged)
  /\ UNCHANGED <<crawlVars, pageVars, sections, merged>>

\* splitLargeSection applied to arbitrary sections
SplitInput ==
  /\ phase = "input"
  /\ SplitAll(sections)
  /\ UNCHANGED <<crawlVars, pageVars, sections, merged>>

ChunkNext == MergeInput \/ SplitMerged \/ SplitInput

ChunkSpec == ChunkInit /\ [][ChunkNext]_vars

\* C9 (as claimed): mergeSections never outputs a section whose estimated
\* size exceeds MAX_CHUNK_TOKENS.
C9_MergeOutputWithinMax ==
  phase = "merged" =>
    \A i \in DOMAIN merged :
      estimateTokens(merged[i].content) <= MAX_CHUNK_TOKENS

\* C9 (amended): mergeSections never builds a section whose estimated size
\* exceeds MAX_CHUNK_TOKENS: an output section that absorbed another one is
\* at most MAX_CHUNK_TOKENS, and an output section above it is an input
\* section that was already above it, passed through unchanged.
C9_MergeBuildsNoOversize ==
  phase = "merged" =>
    \A i \in DOMAIN merged :
      estimateTokens(merged[i].content) > MAX_CHUNK_TOKENS =>
        \E j \in DOMAIN sections : sections[j] = merged[i]

C9_Witness ==
  /\ phase = "merged"
  /\ \E i \in DOMAIN merged :
       /\ merged[i] \notin Range(sections)
       /\ estimateTokens(merged[i].content) = MAX_CHUNK_TOKENS
  /\ \E k \in DOMAIN merged :
       estimateTokens(merged[k].content) > MAX_CHUNK_TOKENS

\* C10: each piece returned by splitLargeSection has an estimated size of at
\* most MAX_CHUNK_TOKENS, unless it consists of a single paragraph that alone
\* exceeds MAX_CHUNK_TOKENS.
C10_SplitPiecesWithinMax ==
  phase = "split" =>
    \A i \in DOMAIN splitOut : \A k \in DOMAIN splitOut[i] :
      LET c == splitOut[i][k].content
      IN  \/ estimateTokens(c) <= MAX_CHUNK_TOKENS
          \/ Len(SplitParagraphs(c)) = 1

\* ------------------------------------------------ the pages given to chunkAll
\* the blocks a page's markdown is made of: bare headings, headings with a
\* paragraph, paragraphs, a line of white space
Headed(lvl, name) == <<HeadingLine(lvl, name), Blank, TextLine(400)>>

Blocks ==
  { <<HeadingLine(1, "A")>>, <<HeadingLine(2, "B")>>, <<HeadingLine(2, " ")>>,
    Headed(2, "B"), Headed(3, "C"),
    <<TextLine(5)>>, <<TextLine(400)>>, <<TextLine(5994)>>, <<SpaceLine(2)>> }

\* the markdowns of exactly n blocks, an empty line between two blocks
RECURSIVE MarkdownsOf(_)
MarkdownsOf(n) ==
  IF n = 1 THEN Blocks
  ELSE {m \o <<Blank>> \o b : m \in MarkdownsOf(n - 1), b \in Blocks}

\* the empty markdown and those of at most n blocks
Markdowns(n) == {<<Blank>>} \cup UNION {MarkdownsOf(k) : k \in 1..n}

PagePaths == << <<"", "docs", "t">>, <<"", "docs", "api-v3">>, <<"", "docs", "">> >>

Titles == {"T", "t", "T!", "API v3", "api-v3", ""}

\* the catalog section of each page path
SectionOfPath(path) ==
  IF path = PagePaths[2] THEN "Getting Started" ELSE "Guides"

PageRecord(path, title, markdown) ==
  [path |-> path, section |-> SectionOfPath(path), title |-> title,
   markdown |-> markdown]

\* one page of any markdown
RichPages ==
  {PageRecord(PagePaths[1], "T", m) : m \in Markdowns(MaxBlocks)} \cup
  {PageRecord(PagePaths[1], "", m) : m \in Markdowns(2)}

\* pages of any path and title with one of three markdowns
PlainPages ==
  {PageRecord(PagePaths[k], t, m) :
     k \in DOMAIN PagePaths, t \in Titles,
     m \in { <<SpaceLine(2), Blank>>, <<TextLine(5)>>,
             <<TextLine(400), Blank, HeadingLine(1, "A"), Blank, TextLine(400)>> }}

\* the lists of at most n plain pages: the pages of one crawl have distinct
\* paths
RECURSIVE PlainLists(_)
PlainLists(n) ==
  IF n = 0 THEN {<<>>}
  ELSE PlainLists(n - 1) \cup
       {l \in {Append(t, p) :
                 t \in {u \in PlainLists(n - 1) : Len(u) = n - 1},
                 p \in PlainPages} :
          \A k \in 1..(n - 1) : l[k].path # l[n].path}

PageInit ==
  /\ CrawlIdle
  /\ sections = <<>>
  /\ merged = <<>>
  /\ splitIn = <<>>
  /\ splitOut = <<>>
  /\ phase = "page"
  /\ pages \in {<<p>> : p \in RichPages} \cup
               (PlainLists(MaxPages) \ {<<>>})
  /\ pageNo = 1
  /\ chunks = <<>>
  /\ files = {}
  /\ manifest = Null

\* chunkPage returns: flatMap goes on to the next page
ReturnChunks(cs) ==
  /\ chunks' = Append(chunks, cs)
  /\ pageNo' = pageNo + 1
  /\ phase' = IF pageNo < Len(pages) THEN "page" ELSE "done"
  /\ sections' = <<>>
  /\ merged' = <<>>
  /\ splitIn' = <<>>
  /\ splitOut' = <<>>
  /\ UNCHANGED <<crawlVars, pages, files, manifest>>

\* if (!page.markdown.trim()) return []
ReturnEmpty ==
  /\ phase = "page"
  /\ IsEmptyMarkdown(pages[pageNo].markdown)
  /\ ReturnChunks(<<>>)

\* let sections = splitByHeadings(page.markdown)
SplitHeadings ==
  /\ phase = "page"
  /\ ~IsEmptyMarkdown(pages[pageNo].markdown)
  /\ sections' = splitByHeadings(pages[pageNo].markdown)
  /\ phase' = "input"
  /\ UNCHANGED <<crawlVars, pageVars, merged, splitIn, splitOut>>

\* the hierarchies and the chunks made of the final sections
MakeChunks ==
  /\ phase = "split"
  /\ pageNo \in DOMAIN pages
  /\ ReturnChunks(DocChunks(pages[pageNo], Flatten(splitOut)))

KeepAll(c) == TRUE

\* c.tokenEstimate >= MIN_USEFUL_TOKENS
IsUseful(c) == c.tokenEstimate >= MIN_USEFUL_TOKENS

\* `${chunk.id}.json`
FileName(id) == id \o <<".json">>

\* writeFileSync(join(CHUNKS_DIR, `${chunk.id}.json`), ...) for each chunk in
\* turn: a file is known by its name, and a later write replaces its content
RECURSIVE WriteFiles(_, _)
WriteFiles(cs, dir) ==
  IF cs = <<>> THEN dir
  ELSE WriteFiles(Tail(cs),
         {f \in dir : f.name # FileName(Head(cs).id)} \cup
           {[name |-> FileName(Head(cs).id), content |-> Head(cs)]})

\* chunks.reduce((sum, c) => sum + c.tokenEstimate, 0)
RECURSIVE SumTokens(_)
SumTokens(cs) ==
  IF cs = <<>> THEN 0 ELSE Head(cs).tokenEstimate + SumTokens(Tail(cs))

\* the manifest's entry for a chunk (url is left out, as in the chunks)
ManifestEntry(c) ==
  [id |-> c.id, file |-> <<"chunks/">> \o FileName(c.id),
   path |-> c.path, section |-> c.section, title |-> c.title,
   heading |-> c.heading, parentHeadings |-> c.parentHeadings,
   tokenEstimate |-> c.tokenEstimate, chunkIndex |-> c.chunkIndex,
   totalChunks |-> c.totalChunks]

\* the driver after chunkAll: the filter, CHUNKS_DIR emptied and filled, the
\* manifest (generatedAt and the order of its sections are left out)
WriteOutput ==
  /\ phase = "done"
  /\ LET allChunks == Flatten(chunks)
         kept == SelectSeq(allChunks, IsUseful)
     IN  /\ files' = WriteFiles(kept, {})
         /\ manifest' =
              [totalPages         |-> Len(pages),
               totalChunks        |-> Len(kept),
               totalTokenEstimate |-> SumTokens(kept),
               sections           |-> {pages[k].section : k \in DOMAIN pages},
               chunks             |-> [k \in DOMAIN kept |-> ManifestEntry(kept[k])]]
  /\ phase' = "written"
  /\ UNCHANGED <<crawlVars, pages, pageNo, chunks, sections, merged, splitIn,
                 splitOut>>

\* chunkAll: chunkPage (split, merge, split large, make chunks) page by page,
\* then the driver's output
PageNext ==
  \/ ReturnEmpty
  \/ SplitHeadings
  \/ MergeInput
  \/ SplitMerged
  \/ MakeChunks
  \/ WriteOutput

PageSpec == PageInit /\ [][PageNext]_vars

\* the chunks chunkAll returns: pages.flatMap(chunkPage)
chunkAll == Flatten(chunks)

IsWhiteOnly(markdown) == \A i \in DOMAIN markdown : IsWhite(markdown[i])

\* C11: the chunks chunkPage returns for a page have chunkIndex 0, 1, ...,
\* n-1 in output order and totalChunks = n, the number of chunks returned
\* for the page; a page whose markdown is empty or white space only returns
\* no chunks.
C11_DenseChunkIndex ==
  \A p \in DOMAIN chunks :
    LET n == Len(chunks[p])
    IN  /\ \A k \in 1..n :
             /\ chunks[p][k].chunkIndex = k - 1
             /\ chunks[p][k].totalChunks = n
             /\ chunks[p][k].path = pages[p].path
        /\ {chunks[p][k].chunkIndex : k \in 1..n} = 0..(n - 1)
        /\ IsWhiteOnly(pages[p].markdown) => n = 0

C11_Witness ==
  /\ phase = "done"
  /\ \E p, q \in DOMAIN chunks :
       /\ Len(chunks[p]) >= 2
       /\ IsWhiteOnly(pages[q].markdown)
       /\ TextLen(pages[q].markdown) > 0
       /\ chunks[q] = <<>>

\* C12: across all chunks chunkAll produces for the pages of one crawl
\* (distinct paths) no two chunks have the same id, so no chunk file
\* chunks/<id>.json is written for two chunks.
C12_ChunkIdsUnique ==
  phase = "done" =>
    \A i, j \in DOMAIN chunkAll :
      chunkAll[i].id = chunkAll[j].id => i = j

\* the contents of sections i..j joined by "\n\n"
RECURSIVE JoinRange(_, _, _)
JoinRange(secs, i, j) ==
  IF i = j THEN secs[i].content
  ELSE JoinBlank(JoinRange(secs, i, j - 1), secs[j].content)

\* the last index up to i that is in S
LastIn(S, i) == CHOOSE s \in S : s <= i /\ \A t \in S : t <= i => t <= s

\* mrg groups secs into runs of neighbours: S holds the indices of the
\* sections that stand alone, each followed by the sections it absorbs
MergeRule(secs, mrg) ==
  \E S \in SUBSET DOMAIN secs :
    /\ Cardinality(S) = Len(mrg)
    /\ secs # <<>> => 1 \in S
    /\ \A i \in DOMAIN secs \ {1} :
         i \notin S <=>
           /\ estimateTokens(secs[i].content) < MIN_CHUNK_TOKENS
           /\ estimateTokens(JoinRange(secs, LastIn(S, i - 1), i - 1))
                + estimateTokens(secs[i].content) < MAX_CHUNK_TOKENS
    /\ \A s \in S :
         LET k == Cardinality({t \in S : t <= s})
             e == CHOOSE i \in DOMAIN secs :
                    /\ LastIn(S, i) = s
                    /\ \A j \in DOMAIN secs : LastIn(S, j) = s => j <= i
         IN  mrg[k] = [heading      |-> secs[s].heading,
                       headingLevel |-> secs[s].headingLevel,
                       content      |-> JoinRange(secs, s, e)]

\* "# A\n\nshort\n\n## B\n\nshort"
ShortAB ==
  <<HeadingLine(1, "A"), Blank, TextLine(5), Blank,
    HeadingLine(2, "B"), Blank, TextLine(5)>>

\* C13: mergeSections, scanning left to right, absorbs a section into the
\* output section before it exactly when there is one, the section's
\* estimated size is below MIN_CHUNK_TOKENS and the combined size stays under
\* MAX_CHUNK_TOKENS; otherwise the section stands alone; the absorbing
\* section keeps its heading and level.  The page "# A\n\nshort\n\n## B\n\n
\* short" yields one chunk with heading "A" and totalChunks = 1.
C13_MergeRule ==
  /\ phase = "merged" => MergeRule(sections, merged)
  /\ \A p \in DOMAIN chunks :
       pages[p].markdown = ShortAB =>
         /\ Len(chunks[p]) = 1
         /\ chunks[p][1].heading = "A"
         /\ chunks[p][1].totalChunks = 1

C13_Witness ==
  /\ phase = "merged"
  /\ Len(merged) < Len(sections)
  /\ \E k \in DOMAIN merged \ {1} : \E i \in DOMAIN sections \ {1} :
       /\ merged[k] = sections[i]
       /\ estimateTokens(sections[i].content) < MIN_CHUNK_TOKENS
       /\ estimateTokens(merged[k - 1].content)
            + estimateTokens(sections[i].content) = MAX_CHUNK_TOKENS

\* the sections up to the i-th whose headings enclose it: those with a name
\* that no later section up to the i-th closes with a level as high
Enclosing(secs, i) ==
  {j \in 1..i :
     /\ secs[j].heading # ""
     /\ \A k \in (j + 1)..i : secs[k].headingLevel > secs[j].headingLevel}

\* chunk k of cs lies under the level-1 heading "A"
UnderA(cs, k) ==
  \E a \in 1..(k - 1) :
    /\ cs[a].headingLevel = 1
    /\ cs[a].heading = "A"
    /\ \A b \in (a + 1)..(k - 1) : cs[b].headingLevel >= 2

\* C14: buildHeadingHierarchy pops every stack entry whose level is >= the
\* section's level, pushes the section's heading when it is non-empty and
\* returns the page title followed by the stack's headings from root to
\* nearest; on a page titled "T" a chunk whose section is a level-2 heading
\* inside the level-1 heading "A" has parentHeadings <<"T", "A", own heading>>.
C14_HeadingHierarchy ==
  /\ (phase = "split" /\ pageNo \in DOMAIN pages) =>
       LET secs == Flatten(splitOut)
           title == pages[pageNo].title
           h == buildHeadingHierarchy(secs, title)
       IN  /\ Len(h) = Len(secs)
           /\ \A i \in DOMAIN secs :
                /\ Len(h[i]) = 1 + Cardinality(Enclosing(secs, i))
                /\ h[i][1] = title
                /\ \A j \in Enclosing(secs, i) :
                     h[i][1 + Cardinality({t \in Enclosing(secs, i) : t <= j})]
                       = secs[j].heading
  /\ \A p \in DOMAIN chunks : \A k \in DOMAIN chunks[p] :
       ( /\ pages[p].title = "T"
         /\ chunks[p][k].headingLevel = 2
         /\ chunks[p][k].heading # "T"
         /\ UnderA(chunks[p], k) )
       => chunks[p][k].parentHeadings = <<"T", "A", chunks[p][k].heading>>

C14_Witness ==
  /\ phase = "done"
  /\ \E p \in DOMAIN chunks : \E k \in DOMAIN chunks[p] \ {1} :
       /\ chunks[p][k].parentHeadings = <<"T", "A", "B">>
       /\ chunks[p][k].headingLevel = 2
       /\ chunks[p][k - 1].headingLevel = 3
       /\ chunks[p][k - 1].parentHeadings = <<"T", "A", "C">>

\* a line without the white space at its end
NormLine(line) ==
  IF IsHeading(line) /\ line.name = " " THEN TextLine(line.lvl) ELSE line

\* white-space normalization of a text: its lines that are not white, each
\* without the white space at its end
RECURSIVE Normalized(_)
Normalized(t) ==
  IF t = <<>> THEN <<>>
  ELSE IF IsWhite(Head(t)) THEN Normalized(Tail(t))
  ELSE <<NormLine(Head(t))>> \o Normalized(Tail(t))

HeadingIndices(t) == {i \in DOMAIN t : IsHeading(t[i])}

\* C15: the contents of the sections splitByHeadings returns, concatenated in
\* order, equal the markdown up to white-space normalization (no line lost,
\* duplicated or reordered); each heading line starts the content of its own
\* section; what precedes the first heading forms a level-0 section with an
\* empty heading.
C15_Reconstruction ==
  (phase = "input" /\ pageNo \in DOMAIN pages) =>
    LET md == pages[pageNo].markdown
        H  == HeadingIndices(md)
    IN  /\ Normalized(Flatten([i \in DOMAIN sections |-> sections[i].content]))
             = Normalized(md)
        /\ \A i \in DOMAIN sections :
             /\ \A j \in DOMAIN sections[i].content \ {1} :
                  ~IsHeading(sections[i].content[j])
             /\ sections[i].headingLevel = 0 =>
                  /\ i = 1
                  /\ sections[i].heading = ""
                  /\ \A j \in DOMAIN sections[i].content :
                       ~IsHeading(sections[i].content[j])
        /\ Cardinality({i \in DOMAIN sections : sections[i].headingLevel > 0})
             = Cardinality(H)
        /\ \A i \in DOMAIN sections :
             sections[i].headingLevel > 0 =>
               \E h \in H :
                 /\ Cardinality({g \in H : g <= h})
                      = Cardinality({k \in 1..i : sections[k].headingLevel > 0})
                 /\ NormLine(sections[i].content[1]) = NormLine(md[h])
                 /\ sections[i].headingLevel = md[h].lvl
                 /\ sections[i].heading = TrimName(md[h].name)
        /\ 1 \notin H <=> sections[1].headingLevel = 0
        /\ 1 \notin H =>
             sections[1].content =
               Trim(SubSeq(md, 1, IF H = {} THEN Len(md)
                                  ELSE (CHOOSE h \in H : \A g \in H : h <= g) - 1))

C15_Witness ==
  /\ phase = "input"
  /\ Len(sections) >= 3
  /\ sections[1].headingLevel = 0
  /\ sections[1].content # <<Blank>>
  /\ \E i \in DOMAIN sections : sections[i].content = <<TextLine(2)>>
  /\ \E j \in DOMAIN pages[pageNo].markdown :
       pages[pageNo].markdown[j] = SpaceLine(2)

\* C16: the run aborts with a non-zero exit when the crawl returns zero pages
\* (an empty seed list included), before anything is written; a failed fetch
\* or render of one page never aborts it: crawlAll still returns the results
\* of the other pages and the driver goes on to chunk and write.
C16_AbortOnlyOnZeroPages ==
  /\ [](main = "exit1" => results = <<>>)
  /\ [](main = "written" => results # <<>>)
  /\ [](main \in {"returned", "exit1", "written"} =>
          /\ {results[i].path : i \in DOMAIN results} = visited \ failed
          /\ (seeds = <<>> => results = <<>>))
  /\ [][main' = "exit1" => (main = "returned" /\ results = <<>>)]_vars
  /\ [][main' = "written" => (main = "returned" /\ results # <<>>)]_vars
  /\ [][main = "exit1" => main' = "exit1"]_vars

C16_Witness ==
  /\ main = "written"
  /\ failed # {}
  /\ failed \cap SeedPaths # {}
  /\ results # <<>>

\* the positions of a worker whose crawlPage call or its handling is pending
InFlightPcs == {"delay", "resume"} \cup FetchPcs

\* C17: a worker exits only when the queue is observed empty and the in-flight
\* work of all other workers has settled: no worker has exited while another
\* worker has a fetch in flight whose discoveries may yet be pushed.
C17_ExitOnlyWhenAllSettled ==
  \A w, v \in Workers :
    pc[w] = "done" => pc[v] \notin InFlightPcs

\* worker w resumes after crawlPage in this step
Resumes(w) == pc[w] = "resume" /\ pc'[w] # "resume"

\* C18: after a successful fetch the result is appended to the results once,
\* and a discovered path is pushed onto the queue, with section "Discovered",
\* only if at that moment it is neither in visited nor in the queue; so the
\* queue never holds two entries for one path other than duplicates of the
\* seed list, and a path that is no seed is enqueued at most once in a crawl.
C18_EnqueueRule ==
  /\ [][\A w \in Workers : Resumes(w) =>
          /\ results' = IF ret[w] = Null THEN results
                        ELSE Append(results, ret[w])
          /\ \A p \in DOMAIN pushes :
               pushes'[p] - pushes[p] =
                 IF /\ ret[w] # Null
                    /\ p \in Range(ret[w].discoveredPaths)
                    /\ p \notin visited
                    /\ ~InQueue(queue, p)
                 THEN 1 ELSE 0]_vars
  /\ [][(\A w \in Workers : ~Resumes(w)) =>
          (pushes' = pushes /\ results' = results)]_vars
  /\ [](\A i \in DOMAIN queue :
          \/ queue[i] \in Range(seeds)
          \/ queue[i].section = "Discovered" /\ pushes[queue[i].path] = 1)
  /\ [](\A i, j \in DOMAIN queue :
          (i # j /\ queue[i].path = queue[j].path) =>
            /\ queue[i] \in Range(seeds)
            /\ queue[j] \in Range(seeds)
            /\ CountPath(queue, queue[i].path) <= CountPath(seeds, queue[i].path))
  /\ [](\A p \in DOMAIN pushes :
          /\ p \notin SeedPaths => pushes[p] <= 1
          /\ Cardinality(ResultsFor(p)) <= 1)

C18_Witness ==
  /\ \E i, j \in DOMAIN queue : i # j /\ queue[i].path = queue[j].path
  /\ \E i \in DOMAIN queue : queue[i].section = "Discovered"
  /\ \E i \in DOMAIN results : \E p \in DOMAIN pushes \ SeedPaths :
       /\ p \in Range(results[i].discoveredPaths)
       /\ InQueue(queue, p)
       /\ pushes[p] = 1
       /\ \E q \in SeedPaths \ visited :
            q \in Range(results[i].discoveredPaths) /\ pushes[q] = 0

\* C19: a path of the seed list is never tagged "Discovered": a Crawl Result
\* for a seed path carries the section of the path's first seed entry, also
\* when other pages link to the path before its seed task is dequeued; only
\* paths absent from the seed list get section "Discovered".
C19_SeedNeverDiscovered ==
  /\ \A i \in DOMAIN results :
       results[i].section =
         IF results[i].path \in SeedPaths
         THEN FirstSeedSection(results[i].path) ELSE "Discovered"
  /\ \A i \in DOMAIN queue :
       queue[i].section = "Discovered" <=> queue[i].path \notin SeedPaths
  /\ \A w \in Workers :
       item[w] # Null =>
         (item[w].section = "Discovered" <=> item[w].path \notin SeedPaths)
  /\ \A p \in SeedPaths : pushes[p] = 0

\* a seed path that an earlier result links to and that was still queued
\* after that result's discoveries were handled has its own result
C19_Witness ==
  \E i, j \in DOMAIN results :
    /\ i < j
    /\ results[j].path \in SeedPaths
    /\ results[j].path \in Range(results[i].discoveredPaths)
    /\ results[j].section = FirstSeedSection(results[j].path)
    /\ CountPath(seeds, results[j].path) = 2
    /\ \E k \in DOMAIN results :
         k < j /\ k # i /\ results[k].section # "Discovered"
    /\ \E k \in DOMAIN results : results[k].section = "Discovered"

\* the positions of a worker between its newPage and the end of its close
OpenPcs == {"goto", "settle", "content", "close"}

Rendering == {w \in Workers : pc[w] \in OpenPcs}

\* C20 (as claimed): every page context a render call opens is closed by that
\* call, whether rendering succeeds or fails, so none stays open once its
\* call has returned; the browser is closed only after all workers have
\* exited, so no render call runs against a closed browser.
C20_PagesClosedByTheirCall ==
  /\ pagesOpen = Cardinality(Rendering)
  /\ browser = "closed" => AllDone
  /\ \A w \in Workers : pc[w] \in RenderPcs => browser = "open"

\* C20 (amended): a render call leaves through page.close() whenever its
\* newPage succeeded, whether rendering succeeded or failed, and a close that
\* succeeds closes the page the call opened; a page context stays open after
\* its call has returned only when page.close() itself rejected (the call
\* then yields no result); the browser is closed only after all workers have
\* exited, so no render call runs against a closed browser.
C20_PagesClosedUnlessCloseFails ==
  /\ [](/\ Cardinality(Rendering) <= pagesOpen
        /\ pagesOpen <= Cardinality(Rendering) + Cardinality(failed)
        /\ failed = {} => pagesOpen = Cardinality(Rendering))
  /\ [][\A w \in Workers :
          (pc[w] \in RenderPcs /\ pc'[w] \notin RenderPcs) =>
            \/ pc[w] = "newPage" /\ ret'[w] = Null /\ pagesOpen' = pagesOpen
            \/ /\ pc[w] = "close"
               /\ pagesOpen' = IF ret'[w] = Null THEN pagesOpen
                               ELSE pagesOpen - 1]_vars
  /\ [][pagesOpen' # pagesOpen =>
          \E w \in Workers :
            \/ pc[w] = "newPage" /\ pc'[w] = "goto"
                 /\ pagesOpen' = pagesOpen + 1
            \/ pc[w] = "close" /\ pc'[w] = "resume"
                 /\ pagesOpen' = pagesOpen - 1]_vars
  /\ [](browser = "closed" => AllDone)
  /\ [](\A w \in Workers : pc[w] \in RenderPcs => browser = "open")
  /\ [][browser' # browser => (AllDone /\ browser' = "closed")]_vars

C20_Witness ==
  /\ main = "returned"
  /\ browser = "closed"
  /\ pagesOpen = 1
  /\ \E i \in DOMAIN results : results[i].fetchMethod = "playwright"
  /\ \E i \in DOMAIN results :
       results[i].fetchMethod = "static" /\ IsThin(results[i].tokens)

\* the indices of the chunks of chunkAll at or above the hard floor
UsefulIndices == {i \in DOMAIN chunkAll : chunkAll[i].tokenEstimate >= 30}

RECURSIVE SumOver(_)
SumOver(I) ==
  IF I = {} THEN 0
  ELSE LET i == CHOOSE j \in I : TRUE
       IN  chunkAll[i].tokenEstimate + SumOver(I \ {i})

\* C21: the driver keeps exactly the chunks with tokenEstimate >= 30 (a floor
\* below MIN_CHUNK_TOKENS), in chunkAll order; the manifest's chunks list has
\* one entry per kept chunk in that order, totalChunks is the length of that
\* list, totalTokenEstimate the sum of the kept chunks' tokenEstimate,
\* totalPages the number of Crawl Results (pages all of whose chunks were
\* dropped included) and sections the set of the pages' distinct sections.
C21_DriverOutput ==
  phase = "written" =>
    /\ MIN_USEFUL_TOKENS = 30 /\ MIN_USEFUL_TOKENS < MIN_CHUNK_TOKENS
    /\ Len(manifest.chunks) = Cardinality(UsefulIndices)
    /\ \A i \in UsefulIndices :
         LET e == manifest.chunks[Cardinality({j \in UsefulIndices : j <= i})]
             c == chunkAll[i]
         IN  /\ e.id = c.id
             /\ e.path = c.path
             /\ e.chunkIndex = c.chunkIndex
             /\ e.totalChunks = c.totalChunks
             /\ e.tokenEstimate = c.tokenEstimate
             /\ e.heading = c.heading
             /\ e.parentHeadings = c.parentHeadings
             /\ \E f \in files : f.name = FileName(c.id)
    /\ \A f \in files : \E i \in UsefulIndices : f.content = chunkAll[i]
    /\ manifest.totalChunks = Len(manifest.chunks)
    /\ manifest.totalTokenEstimate = SumOver(UsefulIndices)
    /\ manifest.totalPages = Len(pages)
    /\ manifest.sections = {pages[k].section : k \in DOMAIN pages}

C21_Witness ==
  /\ phase = "written"
  /\ Cardinality(manifest.sections) = 2
  /\ manifest.totalChunks >= 2
  /\ manifest.totalTokenEstimate > 2 * MIN_CHUNK_TOKENS
  /\ \E p \in DOMAIN pages :
       /\ chunks[p] # <<>>
       /\ \A k \in DOMAIN chunks[p] :
            chunks[p][k].tokenEstimate < MIN_USEFUL_TOKENS

\* the manifest's entries for the chunks of the page at path
EntriesOf(path) == SelectSeq(manifest.chunks, LAMBDA e : e.path = path)

\* C22: among the chunks of one page that are written and listed in the
\* manifest (after the hard-floor filter), the chunkIndex values are 0, 1,
\* ..., m-1 in order and every totalChunks is m, the number of persisted
\* chunks of that page.
C22_PersistedChunksDense ==
  phase = "written" =>
    \A p \in DOMAIN pages :
      LET es == EntriesOf(pages[p].path)
      IN  \A k \in DOMAIN es :
            /\ es[k].chunkIndex = k - 1
            /\ es[k].totalChunks = Len(es)

\* the sections of a page as splitByHeadings returns them, each carrying its
\* position in the page
Indexed(secs) ==
  [i \in DOMAIN secs |-> [heading |-> secs[i].heading,
                          headingLevel |-> secs[i].headingLevel,
                          content |-> secs[i].content,
                          from |-> i]]

\* for every final section of a page (after the merge and the split), the
\* position in the page of the section it begins with and the number of the
\* merged section it is a piece of
Origins(markdown) ==
  LET mrg == mergeSections(Indexed(splitByHeadings(markdown)))
  IN  Flatten([m \in DOMAIN mrg |->
                 [q \in DOMAIN splitLargeSection(mrg[m]) |->
                    [from |-> mrg[m].from, part |-> m]]])

\* the page title followed by the headings that enclose section i of secs,
\* from the outermost to the nearest
EnclosingTrail(secs, i, title) ==
  LET idx == SelectSeq([j \in 1..i |-> j], LAMBDA j : j \in Enclosing(secs, i))
  IN  <<title>> \o [k \in DOMAIN idx |-> secs[idx[k]].heading]

\* every chunk's parentHeadings is the title followed by the headings that
\* enclose its section in the heading structure of the page's markdown
C23_TrailOfPage ==
  \A p \in DOMAIN chunks :
    LET pre == splitByHeadings(pages[p].markdown)
        org == Origins(pages[p].markdown)
    IN  chunks[p] # <<>> =>
          /\ Len(org) = Len(chunks[p])
          /\ \A k \in DOMAIN chunks[p] :
               chunks[p][k].parentHeadings
                 = EnclosingTrail(pre, org[k].from, pages[p].title)

\* the pieces of one split section carry the same heading, level and
\* parentHeadings
C23_PiecesAlike ==
  \A p \in DOMAIN chunks :
    LET org == Origins(pages[p].markdown)
    IN  chunks[p] # <<>> =>
          \A k \in DOMAIN chunks[p] : \A l \in DOMAIN chunks[p] :
            (k \in DOMAIN org /\ l \in DOMAIN org /\ org[k].part = org[l].part)
            => /\ chunks[p][k].heading = chunks[p][l].heading
               /\ chunks[p][k].headingLevel = chunks[p][l].headingLevel
               /\ chunks[p][k].parentHeadings = chunks[p][l].parentHeadings

\* C23: for every chunk returned by chunkPage, parentHeadings is the page
\* title followed by every heading of the page that encloses the chunk's
\* section in the page's heading structure, from the outermost to the
\* nearest, also when an enclosing heading's section was absorbed into an
\* earlier section by the merge; and all pieces of one split section carry
\* the same heading, level and parentHeadings.
C23_ParentHeadings == C23_TrailOfPage /\ C23_PiecesAlike

\* the stack of buildHeadingHierarchy after each section of secs
RECURSIVE StackLoop(_, _, _)
StackLoop(secs, stack, out) ==
  IF secs = <<>> THEN out
  ELSE LET s == StackAfter(stack, Head(secs))
       IN  StackLoop(Tail(secs), s, Append(out, s))

StacksOf(secs) == StackLoop(secs, <<>>, <<>>)

StrictlyIncreasing(stack) ==
  \A a \in DOMAIN stack : \A b \in DOMAIN stack :
    a < b => stack[a].level < stack[b].level

\* the final sections of a page: merged, then split
FinalSections(markdown) ==
  LET mrg == mergeSections(splitByHeadings(markdown))
  IN  Flatten([m \in DOMAIN mrg |-> splitLargeSection(mrg[m])])

\* the stack's levels are strictly increasing from bottom to top after every
\* section of the page being chunked
StackIncreasing ==
  (phase = "split" /\ pageNo \in DOMAIN pages) =>
    LET st == StacksOf(Flatten(splitOut))
    IN  \A i \in DOMAIN st : StrictlyIncreasing(st[i])

\* every chunk's parentHeadings is non-empty and begins with the page title
TrailFromTitle ==
  \A p \in DOMAIN chunks : \A k \in DOMAIN chunks[p] :
    /\ chunks[p][k].parentHeadings # <<>>
    /\ chunks[p][k].parentHeadings[1] = pages[p].title

\* C24 as stated: the stack's levels are strictly increasing, and for every
\* chunk parentHeadings is non-empty, begins with the page title and ends
\* with the chunk's own heading field (the page title for a section with an
\* empty heading).
C24_LastIsOwnHeading ==
  /\ StackIncreasing
  /\ TrailFromTitle
  /\ \A p \in DOMAIN chunks : \A k \in DOMAIN chunks[p] :
       LET ph == chunks[p][k].parentHeadings
       IN  ph # <<>> /\ ph[Len(ph)] = chunks[p][k].heading

\* C24, amended: the stack's levels are strictly increasing, and for every
\* chunk parentHeadings is non-empty and begins with the page title; its last
\* element is the chunk's own heading when the section's heading is non-empty;
\* for a section with an empty heading the heading field is the page title,
\* while parentHeadings ends with the nearest enclosing heading among the
\* page's final sections, and is the title alone only when there is none.
C24_Breadcrumbs ==
  /\ StackIncreasing
  /\ TrailFromTitle
  /\ \A p \in DOMAIN chunks :
       LET final == FinalSections(pages[p].markdown)
       IN  chunks[p] # <<>> =>
             /\ Len(final) = Len(chunks[p])
             /\ \A k \in DOMAIN chunks[p] :
                  LET ph  == chunks[p][k].parentHeadings
                      enc == Enclosing(final, k)
                  IN  IF final[k].heading # ""
                      THEN /\ chunks[p][k].heading = final[k].heading
                           /\ ph[Len(ph)] = chunks[p][k].heading
                      ELSE /\ chunks[p][k].heading = pages[p].title
                           /\ enc = {} => ph = <<pages[p].title>>
                           /\ enc # {} =>
                                /\ Len(ph) > 1
                                /\ \E j \in enc :
                                     /\ \A t \in enc : t <= j
                                     /\ ph[Len(ph)] = final[j].heading

\* a page whose chunks include one three levels deep and one of a level-2
\* section with an empty heading inside the heading "A"
C24_Witness ==
  /\ phase = "done"
  /\ \E p \in DOMAIN chunks :
       /\ \E k \in DOMAIN chunks[p] :
            chunks[p][k].parentHeadings = <<"T", "A", "B">>
       /\ \E k \in DOMAIN chunks[p] :
            /\ chunks[p][k].heading = "T"
            /\ chunks[p][k].headingLevel = 2
            /\ chunks[p][k].parentHeadings = <<"T", "A">>

=============================================================================
